---- MODULE Spec2Model ----
(***************************************************************************)
(* Key rotation endpoint of the DID registry: roll (request) -> Response.  *)
(*                                                                         *)
(* roll itself is src/src/endpoints/identifier/keys/roll.ts.  Everything   *)
(* it calls (RequestParser, IdentifierStore, Identifier.getCurrentKey,     *)
(* KeyPairCreator, ControllerDocument, the error classes) lives in         *)
(* ../../../models and ../../../errors, which are not among the sources;   *)
(* those collaborators are modelled from their contract in spec.md and     *)
(* are marked so where they are defined.                                   *)
(*                                                                         *)
(* One execution of roll is two steps.  The function is synchronous and    *)
(* only touches shared state in identifierStore.read (line 63) and         *)
(* identifierStore.addOrUpdate (line 115), so another call can only be     *)
(* observed between those two lines:                                       *)
(*   Roll(p)    lines 43-112  request parsing, read, key generation and    *)
(*                            the mutation of the loaded aggregate         *)
(*   Persist(p) lines 115-130 addOrUpdate, the 201 response, the catch     *)
(***************************************************************************)
EXTENDS Naturals, Sequences, FiniteSets

\* Number of keys KeyPairCreator may generate in one run of the model.
MaxKeys == 2

\* Concurrent executions of roll.
Procs == {1, 2}

---------------------------------------------------------------------------
\* Optional values: <<>> is undefined, <<v>> is the value v.
None == <<>>

Some(v) == <<v>>

\* A query string parameter: not in the query, present with an empty value,
\* or present with a value.
QAbsent == <<"absent">>

QEmpty == <<"empty">>

QValue(v) == <<"value", v>>

\* KeyUse.Signing and the other member of the KeyUse enumeration.
Signing == "Signing"

KeyAgreementUse == "KeyAgreement"

\* KeyState
Current == "Current"

Historical == "Historical"

\* VerificationMethodRelationship
Authentication == "authentication"

KeyAgreement == "keyAgreement"

\* The identifier the store holds, its owner, and the other values a request
\* can carry.
StoredId == "did:1"

Owner == "owner"

IdentifierIds == {"", StoredId, "did:2"}

Callers == {Owner, "guest"}

\* 'use' is cast to KeyUse unchecked (line 48), so any string can arrive.
UseParams == {QAbsent, QValue(KeyAgreementUse), QValue("Other")}

AlgParams == {QAbsent, QValue("RSA")}

SizeParams == {QAbsent, QValue(4096)}

CurveParams == {QAbsent, QEmpty, QValue("P-384")}

\* The requests of the model.  A request roll turns away before it looks at
\* alg, size and curve (no identifier, an identifier the store does not
\* hold, a caller who does not own it) carries none of the three.
Requests ==
  [identifier : {StoredId}, caller : {Owner}, use : UseParams,
   alg : AlgParams, size : SizeParams, curve : CurveParams]
  \cup
  {r \in [identifier : IdentifierIds, caller : Callers, use : UseParams,
          alg : {QAbsent}, size : {QAbsent}, curve : {QAbsent}] :
     r.identifier # StoredId \/ r.caller # Owner}

NoRequest ==
  [identifier |-> "", caller |-> "", use |-> QAbsent,
   alg |-> QAbsent, size |-> QAbsent, curve |-> QAbsent]

---------------------------------------------------------------------------
\* Data

KeyPair(id, algorithm, size, curve, use) ==
  [id |-> id, algorithm |-> algorithm, size |-> size, curve |-> curve,
   use |-> use, state |-> Current, privateKey |-> TRUE]

EmptyDocument(id) ==
  [id |-> id, verificationMethod |-> <<>>,
   authentication |-> <<>>, keyAgreement |-> <<>>]

NoIdentifier ==
  [id |-> "", owner |-> "", keyPairs |-> <<>>,
   controllerDocument |-> EmptyDocument("")]

\* ControllerDocument.addVerificationMethod (method, relationships): append
\* the method if no method has its id, then append a reference to it to
\* each named relationship list that does not hold one.
AppendIfMissing(list, x) ==
  IF \E i \in 1..Len(list) : list[i] = x THEN list ELSE Append(list, x)

\* AddVerificationMethodAlwaysAppends appends the method and the references
\* without looking for them first.
AddVerificationMethodAlwaysAppends(document, method, relationships) ==
  [document EXCEPT
     !.verificationMethod = Append(@, method),
     !.authentication =
        IF Authentication \in relationships THEN Append(@, method.id) ELSE @,
     !.keyAgreement =
        IF KeyAgreement \in relationships THEN Append(@, method.id) ELSE @]

AddVerificationMethod(document, method, relationships) ==
  [document EXCEPT
     !.verificationMethod =
        IF \E i \in 1..Len(@) : @[i].id = method.id THEN @ ELSE Append(@, method),
     !.authentication =
        IF Authentication \in relationships THEN AppendIfMissing(@, method.id) ELSE @,
     !.keyAgreement =
        IF KeyAgreement \in relationships THEN AppendIfMissing(@, method.id) ELSE @]

\* Identifier.getCurrentKey (use): the index in keyPairs of the Current key
\* of that use, 0 when there is none.
CurrentIndexes(identifier, use) ==
  {i \in 1..Len(identifier.keyPairs) :
     /\ identifier.keyPairs[i].use = use
     /\ identifier.keyPairs[i].state = Current}

GetCurrentKey(identifier, use) ==
  IF CurrentIndexes(identifier, use) = {} THEN 0
  ELSE CHOOSE i \in CurrentIndexes(identifier, use) :
         \A j \in CurrentIndexes(identifier, use) : i <= j

\* RequestParser.getQueryParameter (name, defaultValue), on optional values.
GetQueryParameter(param, defaultValue) ==
  IF param[1] = "value" THEN Some(param[2]) ELSE defaultValue

\* KeyPairCreator.createKey: the parameters it accepts.
ValidKeyParameters(algorithm, size, curve) ==
  \/ algorithm = "RSA" /\ size \in {Some(2048), Some(4096)}
  \/ algorithm = "ECDSA" /\ curve \in {Some("P-256"), Some("P-384")}

---------------------------------------------------------------------------
\* Errors and responses

\* The error classes.  authenticated: the class derives from
\* AuthenticatedRequestError.  StoreFault stands for any failure that does
\* not (a runtime fault of the store).
Error(name) ==
  [name |-> name, authenticated |-> name # "StoreFault",
   statusCode |-> CASE name = "IdentifierNotFound" -> 404
                    [] name = "ConcurrentModification" -> 409
                    [] name = "StoreFault" -> 500
                    [] OTHER -> 400]

NoResponse ==
  [kind |-> "none", statusCode |-> 0, error |-> "", body |-> EmptyDocument("")]

\* AuthenticatedRequestError.toErrorResponse
ToErrorResponse(error) ==
  [kind |-> "response", statusCode |-> error.statusCode, error |-> error.name,
   body |-> EmptyDocument("")]

\* An error that leaves roll as an exception.
Thrown(error) ==
  [kind |-> "throw", statusCode |-> 0, error |-> error.name,
   body |-> EmptyDocument("")]

\* roll.ts 118-121
Created(identifier) ==
  [kind |-> "response", statusCode |-> 201, error |-> "",
   body |-> identifier.controllerDocument]

\* roll.ts 122-130: the catch block.  CatchReportsSuccess is a catch that
\* swallows the error and lets the 201 be returned; CatchConvertsAll is one
\* without the instanceof test, which turns every error into a response.
CatchConvertsAll(error) ==
  ToErrorResponse(error)

CatchReportsSuccess(error) ==
  [kind |-> "response", statusCode |-> 201, error |-> "",
   body |-> EmptyDocument("")]

Catch(error) ==
  IF error.authenticated THEN ToErrorResponse(error) ELSE Thrown(error)

---------------------------------------------------------------------------
\* The store

\* IdentifierStore.read (id, caller): the stored aggregate, for its owner.
CanRead(stored, identifierId, caller) ==
  identifierId = stored.id /\ caller = stored.owner

---------------------------------------------------------------------------
\* roll, lines 43-112

\* roll.ts 48
KeyUseOf(request) ==
  GetQueryParameter(request.use, Some(Signing))[1]

\* roll.ts 52: if (!identifierId).  IdentifierAlwaysProvided is the check left
\* out.
IdentifierAlwaysProvided(identifierId) ==
  TRUE

IdentifierProvided(identifierId) ==
  identifierId # ""

\* roll.ts 85-87: the parameters of the new key, from the request and from
\* currentKey, which is identifier.keyPairs[i].
ResolveFromFirstKey(request, identifier, i) ==
  [algorithm |->
     GetQueryParameter(request.alg, Some(identifier.keyPairs[1].algorithm))[1],
   size |-> GetQueryParameter(request.size, identifier.keyPairs[1].size),
   curve |-> GetQueryParameter(request.curve, identifier.keyPairs[1].curve)]

\* ResolveIgnoresCurve passes currentKey.curve to createKey whatever the
\* request says.
ResolveIgnoresCurve(request, identifier, i) ==
  [algorithm |->
     GetQueryParameter(request.alg, Some(identifier.keyPairs[i].algorithm))[1],
   size |-> GetQueryParameter(request.size, identifier.keyPairs[i].size),
   curve |-> identifier.keyPairs[i].curve]

ResolveParameters(request, identifier, i) ==
  [algorithm |->
     GetQueryParameter(request.alg, Some(identifier.keyPairs[i].algorithm))[1],
   size |-> GetQueryParameter(request.size, identifier.keyPairs[i].size),
   curve |-> GetQueryParameter(request.curve, identifier.keyPairs[i].curve)]

\* roll.ts 93-94: currentKey.state = Historical; delete currentKey.privateKey.
\* RetireKeepsPrivateKey is line 94 left out, RetireKeepsState line 93.
RetireKeepsState(identifier, i) ==
  [identifier EXCEPT !.keyPairs[i].privateKey = FALSE]

RetireKeepsPrivateKey(identifier, i) ==
  [identifier EXCEPT !.keyPairs[i].state = Historical]

\* RetireAllCurrent retires every Current key of the identifier, whatever its
\* use.
RetireAllCurrent(identifier, i) ==
  [identifier EXCEPT !.keyPairs =
     [n \in 1..Len(@) |->
        IF @[n].state = Current
        THEN [@[n] EXCEPT !.state = Historical, !.privateKey = FALSE]
        ELSE @[n]]]

Retire(identifier, i) ==
  [identifier EXCEPT !.keyPairs[i].state = Historical,
                     !.keyPairs[i].privateKey = FALSE]

\* roll.ts 97.  PushKeyOverLast writes the new key over the last one instead
\* of after it.
PushKeyOverLast(identifier, newKey) ==
  [identifier EXCEPT !.keyPairs[Len(identifier.keyPairs)] = newKey]

PushKey(identifier, newKey) ==
  [identifier EXCEPT !.keyPairs = Append(@, newKey)]

\* roll.ts 102-105.  RelationshipSwapped has the branches of the conditional
\* exchanged.
RelationshipSwapped(keyUse) ==
  IF keyUse = Signing THEN KeyAgreement ELSE Authentication

RelationshipFor(keyUse) ==
  IF keyUse = Signing THEN Authentication ELSE KeyAgreement

\* roll.ts 107-112
VerificationMethod(identifier, newKey) ==
  [id |-> newKey.id, controller |-> identifier.controllerDocument.id,
   type |-> "JsonWebKey2020"]

\* AddToDocumentFromEmpty starts from a new ControllerDocument instead of the
\* stored one (line 101).  AddToDocumentReferenceOnly pushes the key id on
\* the relationship list instead of calling addVerificationMethod (107-112).
AddToDocumentFromEmpty(identifier, newKey, keyUse) ==
  [identifier EXCEPT !.controllerDocument =
     AddVerificationMethod(EmptyDocument(identifier.controllerDocument.id),
                           VerificationMethod(identifier, newKey),
                           {RelationshipFor(keyUse)})]

AddToDocumentReferenceOnly(identifier, newKey, keyUse) ==
  [identifier EXCEPT
     !.controllerDocument.authentication =
        IF RelationshipFor(keyUse) = Authentication THEN Append(@, newKey.id) ELSE @,
     !.controllerDocument.keyAgreement =
        IF RelationshipFor(keyUse) = KeyAgreement THEN Append(@, newKey.id) ELSE @]

AddToDocument(identifier, newKey, keyUse) ==
  [identifier EXCEPT !.controllerDocument =
     AddVerificationMethod(@, VerificationMethod(identifier, newKey),
                           {RelationshipFor(keyUse)})]

\* roll.ts 90-112: generate the key, then retire, push and publish.  The
\* result is what the call holds when it reaches line 115, or the error
\* createKey threw.  RetireBeforeGenerate has lines 93-94 ahead of line 90.
RetireBeforeGenerate(identifier, i, keyUse, params, keyId) ==
  IF ValidKeyParameters(params.algorithm, params.size, params.curve)
  THEN [thrown |-> "",
        identifier |->
          AddToDocument(
            PushKey(Retire(identifier, i),
                    KeyPair(keyId, params.algorithm, params.size, params.curve, keyUse)),
            KeyPair(keyId, params.algorithm, params.size, params.curve, keyUse),
            keyUse)]
  ELSE [thrown |-> "InvalidKeyParameters", identifier |-> Retire(identifier, i)]

GenerateAndRotate(identifier, i, keyUse, params, keyId) ==
  IF ValidKeyParameters(params.algorithm, params.size, params.curve)
  THEN [thrown |-> "",
        identifier |->
          AddToDocument(
            PushKey(Retire(identifier, i),
                    KeyPair(keyId, params.algorithm, params.size, params.curve, keyUse)),
            KeyPair(keyId, params.algorithm, params.size, params.curve, keyUse),
            keyUse)]
  ELSE [thrown |-> "InvalidKeyParameters", identifier |-> identifier]

\* roll.ts 74-79: no current key for the use.  NoCurrentKeyCreatesFirst is
\* the alternative the comment at lines 66-68 considers: create a first key.
NoCurrentKeyCreatesFirst(identifier, keyUse, keyId) ==
  [next |-> "persist", response |-> NoResponse,
   identifier |->
     AddToDocument(PushKey(identifier, KeyPair(keyId, "RSA", Some(2048), None, keyUse)),
                   KeyPair(keyId, "RSA", Some(2048), None, keyUse), keyUse),
   effects |-> {"read", "createKey"}, generated |-> 1]

NoCurrentKey(identifier, keyUse, keyId) ==
  [next |-> "done", response |-> ToErrorResponse(Error("KeyNotConfigured")),
   identifier |-> identifier, effects |-> {"read"}, generated |-> 0]

\* roll.ts 43-112 for one request against the stored aggregate: where the
\* call stands afterwards (at line 115, or returned), its response, the
\* aggregate it holds, the collaborators it called and the number of keys
\* KeyPairCreator generated.
RollResult(stored, request, keyId) ==
  LET keyUse == KeyUseOf(request)
      i == GetCurrentKey(stored, keyUse)
      params == ResolveParameters(request, stored, i)
      rotated == GenerateAndRotate(stored, i, keyUse, params, keyId)
  IN  IF ~IdentifierProvided(request.identifier)
      THEN [next |-> "done",
            response |-> ToErrorResponse(Error("IdentifierNotProvided")),
            identifier |-> NoIdentifier, effects |-> {}, generated |-> 0]
      ELSE IF ~CanRead(stored, request.identifier, request.caller)
      THEN [next |-> "done", response |-> Catch(Error("IdentifierNotFound")),
            identifier |-> NoIdentifier, effects |-> {"read"}, generated |-> 0]
      ELSE IF i = 0
      THEN NoCurrentKey(stored, keyUse, keyId)
      ELSE IF rotated.thrown # ""
      THEN [next |-> "done", response |-> Catch(Error(rotated.thrown)),
            identifier |-> rotated.identifier,
            effects |-> {"read", "createKey"}, generated |-> 0]
      ELSE [next |-> "persist", response |-> NoResponse,
            identifier |-> rotated.identifier,
            effects |-> {"read", "createKey"}, generated |-> 1]

---------------------------------------------------------------------------
\* State

VARIABLES
  store,             \* the aggregate IdentifierStore holds
  version,           \* how many times it was replaced
  conflictDetection, \* whether addOrUpdate rejects a write over a newer version
  keysCreated,       \* keys KeyPairCreator has generated (source of key ids)
  pc,                \* per call: "idle", "persist" (at line 115), "done"
  request,           \* per call: the request
  identifier,        \* per call: the aggregate the call holds
  readVersion,       \* per call: the version read
  response,          \* per call: what roll returned or threw
  effects            \* per call: the collaborators called so far

vars ==
  <<store, version, conflictDetection, keysCreated, pc, request,
    identifier, readVersion, response, effects>>

\* The aggregates provisioning leaves in the store: a Current signing key,
\* with or without a Current key agreement key, each with its verification
\* method in the document.  Key ids 1 and 2 are theirs; KeyPairCreator's
\* ids start at FirstKeyId.
SigningKeys ==
  {KeyPair(1, "ECDSA", None, Some("P-256"), Signing),
   KeyPair(1, "RSA", Some(2048), None, Signing)}

Provisioned(keys) ==
  [id |-> StoredId, owner |-> Owner, keyPairs |-> keys,
   controllerDocument |->
     [id |-> StoredId,
      verificationMethod |->
        [n \in 1..Len(keys) |->
           [id |-> keys[n].id, controller |-> StoredId, type |-> "JsonWebKey2020"]],
      authentication |-> <<1>>,
      keyAgreement |-> IF Len(keys) = 2 THEN <<2>> ELSE <<>>]]

InitialStores ==
  {Provisioned(<<k>>) : k \in SigningKeys}
  \cup {Provisioned(<<k, KeyPair(2, "ECDSA", None, Some("P-384"), KeyAgreementUse)>>) :
          k \in SigningKeys}

FirstKeyId == 3

Init ==
  /\ store \in InitialStores
  /\ version = 0
  /\ conflictDetection \in BOOLEAN
  /\ keysCreated = 0
  /\ pc = [p \in Procs |-> "idle"]
  /\ request = [p \in Procs |-> NoRequest]
  /\ identifier = [p \in Procs |-> NoIdentifier]
  /\ readVersion = [p \in Procs |-> 0]
  /\ response = [p \in Procs |-> NoResponse]
  /\ effects = [p \in Procs |-> {}]

\* No response is waiting to be handed to the transport.
Delivered ==
  \A q \in Procs : pc[q] # "done"

\* roll.ts 43-112
Roll(p) ==
  /\ pc[p] = "idle"
  /\ keysCreated < MaxKeys
  /\ \E req \in Requests :
       LET r == RollResult(store, req, FirstKeyId + keysCreated)
       IN  /\ request' = [request EXCEPT ![p] = req]
           /\ pc' = [pc EXCEPT ![p] = r.next]
           /\ response' = [response EXCEPT ![p] = r.response]
           /\ identifier' = [identifier EXCEPT ![p] = r.identifier]
           /\ readVersion' = [readVersion EXCEPT ![p] = version]
           /\ effects' = [effects EXCEPT ![p] = r.effects]
           /\ keysCreated' = keysCreated + r.generated
  /\ UNCHANGED <<store, version, conflictDetection>>

\* PersistAppendsNewKey is Persist against a store that merges: a write over
\* a version that is no longer the one read adds the call's new key to the
\* stored aggregate instead of replacing the aggregate.
PersistAppendsNewKey(p) ==
  /\ pc[p] = "persist"
  /\ pc' = [pc EXCEPT ![p] = "done"]
  /\ effects' = [effects EXCEPT ![p] = @ \cup {"addOrUpdate"}]
  /\ \E fault \in BOOLEAN :
       IF fault
       THEN /\ response' = [response EXCEPT ![p] = Catch(Error("StoreFault"))]
            /\ UNCHANGED <<store, version>>
       ELSE /\ store' =
                 IF version = readVersion[p]
                 THEN identifier[p]
                 ELSE LET newKey == identifier[p].keyPairs[Len(identifier[p].keyPairs)]
                      IN  AddToDocument(PushKey(store, newKey), newKey,
                                        KeyUseOf(request[p]))
            /\ version' = version + 1
            /\ response' = [response EXCEPT ![p] = Created(store')]
  /\ UNCHANGED <<conflictDetection, keysCreated, request, identifier,
                 readVersion>>

\* roll.ts 115-130: addOrUpdate, then 201 or the catch.  addOrUpdate
\* replaces the whole aggregate; it fails with ConcurrentModification when
\* the store detects conflicts and the aggregate was replaced since the
\* call read it, and it can fail with a fault of the store itself.
Persist(p) ==
  /\ pc[p] = "persist"
  /\ pc' = [pc EXCEPT ![p] = "done"]
  /\ effects' = [effects EXCEPT ![p] = @ \cup {"addOrUpdate"}]
  /\ \E fault \in BOOLEAN :
       IF fault
       THEN /\ response' = [response EXCEPT ![p] = Catch(Error("StoreFault"))]
            /\ UNCHANGED <<store, version>>
       ELSE IF conflictDetection /\ version # readVersion[p]
       THEN /\ response' = [response EXCEPT ![p] = Catch(Error("ConcurrentModification"))]
            /\ UNCHANGED <<store, version>>
       ELSE /\ store' = identifier[p]
            /\ version' = version + 1
            /\ response' = [response EXCEPT ![p] = Created(identifier[p])]
  /\ UNCHANGED <<conflictDetection, keysCreated, request, identifier,
                 readVersion>>

\* The transport takes the response (or the exception); the call's frame is
\* gone and the slot can serve the next request.
Return(p) ==
  /\ pc[p] = "done"
  /\ pc' = [pc EXCEPT ![p] = "idle"]
  /\ request' = [request EXCEPT ![p] = NoRequest]
  /\ identifier' = [identifier EXCEPT ![p] = NoIdentifier]
  /\ readVersion' = [readVersion EXCEPT ![p] = 0]
  /\ response' = [response EXCEPT ![p] = NoResponse]
  /\ effects' = [effects EXCEPT ![p] = {}]
  /\ UNCHANGED <<store, version, conflictDetection, keysCreated>>

\* Any number of calls, two at a time.  Return changes nothing but the
\* returning call's own frame, so it is taken before the next step of any
\* call: every interleaving of reads and writes of the store remains.
Next ==
  \E p \in Procs :
    \/ Delivered /\ Roll(p)
    \/ Delivered /\ Persist(p)
    \/ Return(p)

Spec ==
  Init /\ [][Next]_vars

\* Two calls, one per slot, whose responses stay in view after they return.
TwoCallsNext ==
  \E p \in Procs : Roll(p) \/ Persist(p)

SpecTwoCalls ==
  Init /\ [][TwoCallsNext]_vars

---------------------------------------------------------------------------
\* Properties

KeyUses == {Signing, KeyAgreementUse}

\* Call p goes from line 43 to line 115 in this step.
ReachesPersist(p) ==
  pc[p] = "idle" /\ pc'[p] = "persist"

\* Call p returns 201 in this step.
Succeeds(p) ==
  pc[p] = "persist" /\ pc'[p] = "done" /\ response'[p].statusCode = 201

\* Every key of that use that is Current in before is, in after, the same
\* key, Historical and without private key.
Retired(before, after, use) ==
  \A i \in CurrentIndexes(before, use) :
    /\ i <= Len(after.keyPairs)
    /\ after.keyPairs[i].id = before.keyPairs[i].id
    /\ after.keyPairs[i].state = Historical
    /\ ~after.keyPairs[i].privateKey

\* C1: a rotation that returns 201 stores the aggregate the call built from
\* the one it read; in it exactly one key of the use is Current and every
\* key of the use that was Current in the aggregate read is Historical with
\* its private key absent.  When the store rejects conflicting writes the
\* aggregate read is the stored one, and the same holds from the stored
\* aggregate before the write to the stored aggregate after it.
RotationRetiresCurrentKey ==
  [][\A p \in Procs :
       /\ ReachesPersist(p) =>
            /\ Cardinality(CurrentIndexes(identifier'[p], KeyUseOf(request'[p]))) = 1
            /\ Retired(store, identifier'[p], KeyUseOf(request'[p]))
       /\ Succeeds(p) =>
            /\ store' = identifier[p]
            /\ Cardinality(CurrentIndexes(store', KeyUseOf(request[p]))) = 1
            /\ conflictDetection => Retired(store, store', KeyUseOf(request[p]))]_vars

\* A call has returned 201 and the stored aggregate holds a retired key and
\* the Current key of the use.
RotationRetiresCurrentKeyWitness ==
  \E p \in Procs :
    /\ pc[p] = "done"
    /\ response[p].statusCode = 201
    /\ store = identifier[p]
    /\ \E i, j \in 1..Len(store.keyPairs) :
         /\ store.keyPairs[i].use = KeyUseOf(request[p])
         /\ store.keyPairs[j].use = KeyUseOf(request[p])
         /\ store.keyPairs[i].state = Historical
         /\ ~store.keyPairs[i].privateKey
         /\ store.keyPairs[j].state = Current

\* C2: in every stored state of the identifier there is at most one Current
\* key per use.
AtMostOneCurrentPerUse ==
  \A use \in KeyUses : Cardinality(CurrentIndexes(store, use)) <= 1

\* The stored aggregate was replaced twice, by two calls that both read the
\* provisioned aggregate (the second write dropped the first one's key).
AtMostOneCurrentPerUseWitness ==
  /\ version = 2
  /\ \A i \in 1..Len(store.keyPairs) :
       store.keyPairs[i].id # FirstKeyId
  /\ \E i \in 1..Len(store.keyPairs) :
       store.keyPairs[i].id = FirstKeyId + 1 /\ store.keyPairs[i].state = Current

\* Both calls have returned, both read the same version of the aggregate
\* for the same use and went on to addOrUpdate, and the store itself did not
\* break down under either.
ConcurrentRotations ==
  /\ \A p \in Procs : pc[p] = "done" /\ "addOrUpdate" \in effects[p]
  /\ readVersion[1] = readVersion[2]
  /\ KeyUseOf(request[1]) = KeyUseOf(request[2])
  /\ \A p \in Procs : response[p].error # "StoreFault"

\* C3: of two concurrent rotations of the same (identifier, use) against a
\* store that rejects conflicting writes, exactly one returns 201, its
\* aggregate is the stored one and has a single Current key of the use, and
\* the other fails with ConcurrentModification.
ConcurrentRollsOneWins ==
  (conflictDetection /\ ConcurrentRotations) =>
    \E p, q \in Procs :
      /\ p # q
      /\ response[p].kind = "response" /\ response[p].statusCode = 201
      /\ response[q].error = "ConcurrentModification"
      /\ response[q].statusCode # 201
      /\ store = identifier[p]
      /\ Cardinality(CurrentIndexes(store, KeyUseOf(request[p]))) = 1

ConcurrentRollsOneWinsWitness ==
  /\ conflictDetection
  /\ ConcurrentRotations
  /\ response[2].statusCode = 201
  /\ response[1].error = "ConcurrentModification"
  /\ version = 1

\* Call p ends in this step: roll returns a response or throws.
Ends(p) ==
  pc[p] # "done" /\ pc'[p] = "done"

\* C4: the stored aggregate changes in a step if and only if a call returns
\* 201 in that step; a call that ends with an error response or a thrown
\* error, a failed addOrUpdate included, leaves it as it was.
AllOrNothing ==
  [][/\ (store' # store) <=> (\E p \in Procs : Succeeds(p))
     /\ \A p \in Procs :
          (Ends(p) /\ response'[p].statusCode # 201) =>
            store' = store /\ version' = version]_vars

\* addOrUpdate failed under a call, which threw, and the store still holds
\* the provisioned aggregate.
AllOrNothingWitness ==
  \E p \in Procs :
    /\ pc[p] = "done"
    /\ "addOrUpdate" \in effects[p]
    /\ response[p].kind = "throw"
    /\ identifier[p] # store
    /\ store \in InitialStores

\* A reference to the key with this id in the list of the document.
Referenced(list, id) ==
  \E n \in 1..Len(list) : list[n] = id

\* C5: every Current signing key of the stored identifier is referenced in
\* the document's authentication list and every Current key agreement key in
\* its keyAgreement list.
CurrentKeysReferenced ==
  \A i \in 1..Len(store.keyPairs) :
    store.keyPairs[i].state = Current =>
      /\ store.keyPairs[i].use = Signing =>
           Referenced(store.controllerDocument.authentication, store.keyPairs[i].id)
      /\ store.keyPairs[i].use = KeyAgreementUse =>
           Referenced(store.controllerDocument.keyAgreement, store.keyPairs[i].id)

\* Both uses have been rotated: the Current key of each is a generated one.
CurrentKeysReferencedWitness ==
  \E i, j \in 1..Len(store.keyPairs) :
    /\ store.keyPairs[i].state = Current /\ store.keyPairs[j].state = Current
    /\ store.keyPairs[i].use = Signing /\ store.keyPairs[j].use = KeyAgreementUse
    /\ store.keyPairs[i].id >= FirstKeyId /\ store.keyPairs[j].id >= FirstKeyId

\* Call p starts in this step with a request that names the stored
\* identifier on behalf of its owner.
StartsOnStored(p) ==
  /\ pc[p] = "idle" /\ pc'[p] # "idle"
  /\ request'[p].identifier = StoredId
  /\ request'[p].caller = Owner

\* C6: a call for a use the identifier has no Current key of ends with
\* KeyNotConfigured, having read the store and nothing else: no key is
\* generated, the aggregate it holds is the one it read, addOrUpdate is not
\* called and the stored aggregate is unchanged.
NoCurrentKeyFailsClosed ==
  [][\A p \in Procs :
       (StartsOnStored(p) /\ CurrentIndexes(store, KeyUseOf(request'[p])) = {}) =>
         /\ pc'[p] = "done"
         /\ response'[p].kind = "response"
         /\ response'[p].error = "KeyNotConfigured"
         /\ response'[p].statusCode # 201
         /\ effects'[p] = {"read"}
         /\ keysCreated' = keysCreated
         /\ identifier'[p] = store
         /\ store' = store]_vars

\* A key agreement rotation of an identifier provisioned with a signing key
\* only has ended with KeyNotConfigured.
NoCurrentKeyFailsClosedWitness ==
  \E p \in Procs :
    /\ pc[p] = "done"
    /\ KeyUseOf(request[p]) = KeyAgreementUse
    /\ response[p].error = "KeyNotConfigured"
    /\ Len(store.keyPairs) = 1

\* C7: a call whose request carries no identifier ends with
\* IdentifierNotProvided and has called neither read nor addOrUpdate.
NoIdentifierNoStoreAccess ==
  \A p \in Procs :
    (pc[p] # "idle" /\ request[p].identifier = "") =>
      /\ pc[p] = "done"
      /\ response[p].kind = "response"
      /\ response[p].error = "IdentifierNotProvided"
      /\ "read" \notin effects[p]
      /\ "addOrUpdate" \notin effects[p]

NoIdentifierNoStoreAccessWitness ==
  \E p \in Procs :
    /\ pc[p] = "done"
    /\ request[p].identifier = ""
    /\ request[p].caller = Owner
    /\ response[p].error = "IdentifierNotProvided"

\* C8: the mapping from KeyUse is exhaustive and fails closed: Signing maps
\* to Authentication, KeyAgreement to KeyAgreement, and a rotation asked
\* for any other use fails with UnsupportedKeyUse, no relationship being
\* chosen for that use by default.
UnsupportedUseFailsClosed ==
  /\ RelationshipFor(Signing) = Authentication
  /\ RelationshipFor(KeyAgreementUse) = KeyAgreement
  /\ \A p \in Procs :
       (/\ pc[p] = "done"
        /\ request[p].identifier = StoredId
        /\ request[p].caller = Owner
        /\ KeyUseOf(request[p]) \notin KeyUses) =>
         /\ response[p].error = "UnsupportedKeyUse"
         /\ RelationshipFor(KeyUseOf(request[p])) \notin {Authentication, KeyAgreement}

\* The last key of an aggregate.
LastKey(aggregate) ==
  aggregate.keyPairs[Len(aggregate.keyPairs)]

\* C9: a call fails with InvalidKeyParameters exactly when the parameters it
\* resolved are ones createKey refuses, and it then ends with that error
\* holding the aggregate as it read it (the current key still Current with
\* its private key, no key appended, the document unchanged), without a key
\* generated, without calling addOrUpdate, the stored aggregate unchanged.
GenerationFailureMutatesNothing ==
  [][\A p \in Procs :
       (StartsOnStored(p) /\ CurrentIndexes(store, KeyUseOf(request'[p])) # {}) =>
         LET i == GetCurrentKey(store, KeyUseOf(request'[p]))
             params == ResolveParameters(request'[p], store, i)
             refused ==
               ~ValidKeyParameters(params.algorithm, params.size, params.curve)
         IN  /\ refused <=> response'[p].error = "InvalidKeyParameters"
             /\ refused =>
                  /\ pc'[p] = "done"
                  /\ response'[p].statusCode # 201
                  /\ identifier'[p] = store
                  /\ store.keyPairs[i].state = Current
                  /\ store.keyPairs[i].privateKey
                  /\ effects'[p] = {"read", "createKey"}
                  /\ keysCreated' = keysCreated
                  /\ store' = store]_vars

\* An RSA rotation of an ECDSA key with no size given has been refused.
GenerationFailureMutatesNothingWitness ==
  \E p \in Procs :
    /\ pc[p] = "done"
    /\ response[p].error = "InvalidKeyParameters"
    /\ request[p].alg = QValue("RSA")
    /\ request[p].size = QAbsent
    /\ identifier[p] = store

\* The request overrides none of alg, size and curve.
NoOverrides(req) ==
  req.alg[1] # "value" /\ req.size[1] # "value" /\ req.curve[1] # "value"

\* C10: a rotation with no alg, size or curve override appends one key, with
\* the algorithm, size and curve of the key it retires, and that is the key
\* stored when the call returns 201.
InheritsParameters ==
  [][\A p \in Procs :
       /\ (ReachesPersist(p) /\ NoOverrides(request'[p])) =>
            /\ Len(identifier'[p].keyPairs) = Len(store.keyPairs) + 1
            /\ LastKey(identifier'[p]).state = Current
            /\ LastKey(identifier'[p]).use = KeyUseOf(request'[p])
            /\ \A i \in CurrentIndexes(store, KeyUseOf(request'[p])) :
                 /\ identifier'[p].keyPairs[i].state = Historical
                 /\ LastKey(identifier'[p]).algorithm = store.keyPairs[i].algorithm
                 /\ LastKey(identifier'[p]).size = store.keyPairs[i].size
                 /\ LastKey(identifier'[p]).curve = store.keyPairs[i].curve
       /\ Succeeds(p) => LastKey(store') = LastKey(identifier[p])]_vars

\* A rotation with no overrides has returned 201 and the stored Current key
\* has the shape of a retired key of its use.
InheritsParametersWitness ==
  \E p \in Procs :
    /\ pc[p] = "done"
    /\ response[p].statusCode = 201
    /\ request[p].alg = QAbsent /\ request[p].size = QAbsent
    /\ request[p].curve = QAbsent
    /\ store = identifier[p]
    /\ LastKey(store).state = Current
    /\ \E i \in 1..Len(store.keyPairs) :
         /\ store.keyPairs[i].state = Historical
         /\ store.keyPairs[i].use = LastKey(store).use
         /\ store.keyPairs[i].algorithm = LastKey(store).algorithm
         /\ store.keyPairs[i].size = LastKey(store).size
         /\ store.keyPairs[i].curve = LastKey(store).curve

\* The parameter is supplied with a non-empty value.
Supplied(param) ==
  param[1] = "value"

\* C11: alg, size and curve are resolved one by one: the key is generated
\* with the value the request supplies (non-empty) for a parameter, and with
\* the current key's value for a parameter it does not supply, in every
\* combination; the rotation goes on to addOrUpdate exactly when createKey
\* accepts these parameters and fails with InvalidKeyParameters otherwise.
OverridesResolvedIndependently ==
  [][\A p \in Procs :
       (StartsOnStored(p) /\ CurrentIndexes(store, KeyUseOf(request'[p])) # {}) =>
         \A i \in CurrentIndexes(store, KeyUseOf(request'[p])) :
           LET algorithm == IF Supplied(request'[p].alg)
                            THEN request'[p].alg[2]
                            ELSE store.keyPairs[i].algorithm
               size == IF Supplied(request'[p].size)
                       THEN <<request'[p].size[2]>>
                       ELSE store.keyPairs[i].size
               curve == IF Supplied(request'[p].curve)
                        THEN <<request'[p].curve[2]>>
                        ELSE store.keyPairs[i].curve
           IN  /\ pc'[p] = "persist" <=> ValidKeyParameters(algorithm, size, curve)
               /\ pc'[p] = "persist" =>
                    /\ LastKey(identifier'[p]).algorithm = algorithm
                    /\ LastKey(identifier'[p]).size = size
                    /\ LastKey(identifier'[p]).curve = curve
               /\ pc'[p] # "persist" =>
                    response'[p].error = "InvalidKeyParameters"]_vars

\* curve=P-384 alone on an ECDSA P-256 key: the stored Current signing key is
\* ECDSA P-384 and the retired one ECDSA P-256.
OverridesResolvedIndependentlyWitness ==
  \E p \in Procs :
    /\ pc[p] = "done"
    /\ response[p].statusCode = 201
    /\ request[p].alg = QAbsent /\ request[p].size = QAbsent
    /\ request[p].curve = QValue("P-384")
    /\ store = identifier[p]
    /\ LastKey(store).algorithm = "ECDSA"
    /\ LastKey(store).curve = Some("P-384")
    /\ \E i \in 1..Len(store.keyPairs) :
         /\ store.keyPairs[i].state = Historical
         /\ store.keyPairs[i].use = LastKey(store).use
         /\ store.keyPairs[i].curve = Some("P-256")

\* Every key of before is in after, at its place, and a Historical one is
\* still Historical.
KeysKept(before, after) ==
  \A i \in 1..Len(before.keyPairs) :
    /\ i <= Len(after.keyPairs)
    /\ after.keyPairs[i].id = before.keyPairs[i].id
    /\ before.keyPairs[i].state = Historical =>
         after.keyPairs[i].state = Historical

\* C12: over any sequence of rotations no key leaves the identifier's key
\* set and no Historical key becomes Current again: the aggregate a call
\* builds keeps the keys of the one it read, and a call that stores its
\* aggregate over the version it read (every successful call, when the store
\* rejects conflicting writes) keeps the keys of the stored one; nothing but
\* a successful call changes the stored aggregate.
KeyStatesMonotonic ==
  [][/\ \A p \in Procs :
          /\ ReachesPersist(p) => KeysKept(store, identifier'[p])
          /\ (Succeeds(p) /\ version = readVersion[p]) => KeysKept(store, store')
          /\ (Succeeds(p) /\ conflictDetection) => version = readVersion[p]
     /\ (\A p \in Procs : ~Succeeds(p)) => store' = store]_vars

\* Two rotations of the signing key, one after the other: the stored
\* aggregate holds both retired keys and the Current one.
KeyStatesMonotonicWitness ==
  /\ version = 2
  /\ \E i, j, k \in 1..Len(store.keyPairs) :
       /\ i < j /\ j < k
       /\ store.keyPairs[i].use = Signing /\ store.keyPairs[i].state = Historical
       /\ store.keyPairs[j].use = Signing /\ store.keyPairs[j].state = Historical
       /\ store.keyPairs[k].use = Signing /\ store.keyPairs[k].state = Current

\* The relationship list of the document for a use.
ListFor(document, use) ==
  IF use = Signing THEN document.authentication ELSE document.keyAgreement

\* Every method and every reference of before is in after, at its place.
DocumentKept(before, after) ==
  /\ \A n \in 1..Len(before.verificationMethod) :
       /\ n <= Len(after.verificationMethod)
       /\ after.verificationMethod[n] = before.verificationMethod[n]
  /\ \A n \in 1..Len(before.authentication) :
       /\ n <= Len(after.authentication)
       /\ after.authentication[n] = before.authentication[n]
  /\ \A n \in 1..Len(before.keyAgreement) :
       /\ n <= Len(after.keyAgreement)
       /\ after.keyAgreement[n] = before.keyAgreement[n]

\* C13: a successful roll returns 201 with the document of the aggregate it
\* stored; that document keeps every method and reference of the document
\* the call read, and its list for the rotated use holds the id of the new
\* key and of every key of that use rotated before.
ResponseDocumentRetainsHistory ==
  [][\A p \in Procs :
       /\ ReachesPersist(p) =>
            DocumentKept(store.controllerDocument, identifier'[p].controllerDocument)
       /\ Succeeds(p) =>
            /\ response'[p].kind = "response"
            /\ response'[p].body = store'.controllerDocument
            /\ response'[p].body = identifier[p].controllerDocument
            /\ Referenced(ListFor(response'[p].body, KeyUseOf(request[p])),
                          LastKey(store').id)
            /\ \A i \in 1..Len(store'.keyPairs) :
                 store'.keyPairs[i].use = KeyUseOf(request[p]) =>
                   /\ Referenced(ListFor(response'[p].body, KeyUseOf(request[p])),
                                 store'.keyPairs[i].id)
                   /\ \E n \in 1..Len(response'[p].body.verificationMethod) :
                        response'[p].body.verificationMethod[n].id =
                          store'.keyPairs[i].id]_vars

\* The second rotation of the signing key has returned 201 with a document
\* whose authentication list is the provisioned key, the first new key, the
\* second new key.
ResponseDocumentRetainsHistoryWitness ==
  \E p \in Procs :
    /\ pc[p] = "done"
    /\ response[p].statusCode = 201
    /\ response[p].body.authentication = <<1, FirstKeyId, FirstKeyId + 1>>
    /\ LastKey(store).id = FirstKeyId + 1

\* C14: when read fails, for an identifier the store does not hold or a
\* caller who does not own it, the call ends with the store's failure as its
\* outcome, having called read and nothing else: no key is generated, the
\* call holds no aggregate, addOrUpdate is not called and the stored
\* aggregate is unchanged.
ReadFailurePropagates ==
  [][\A p \in Procs :
       (/\ pc[p] = "idle" /\ pc'[p] # "idle"
        /\ request'[p].identifier # ""
        /\ ~(request'[p].identifier = store.id /\ request'[p].caller = store.owner)) =>
         /\ pc'[p] = "done"
         /\ response'[p].error = "IdentifierNotFound"
         /\ response'[p].statusCode # 201
         /\ effects'[p] = {"read"}
         /\ keysCreated' = keysCreated
         /\ identifier'[p] = NoIdentifier
         /\ store' = store /\ version' = version]_vars

\* A call for the stored identifier from a caller who does not own it has
\* ended with the store's failure.
ReadFailurePropagatesWitness ==
  \E p \in Procs :
    /\ pc[p] = "done"
    /\ response[p].error = "IdentifierNotFound"
    /\ request[p].identifier = StoredId
    /\ request[p].caller # Owner
    /\ effects[p] = {"read"}

\* The errors of ../../../errors that roll can meet in its try block.
DomainErrors ==
  {"IdentifierNotFound", "KeyNotConfigured", "InvalidKeyParameters",
   "ConcurrentModification"}

\* C15: every call ends with a response or a thrown error.  A failure that
\* is a known domain error ends it with that error's structured response; a
\* failure that is not (a fault of the store under addOrUpdate) is never
\* turned into a response: the call throws it, unchanged.
ErrorDispatch ==
  [][\A p \in Procs :
       Ends(p) =>
         /\ response'[p].kind \in {"response", "throw"}
         /\ response'[p].kind = "throw" =>
              /\ pc[p] = "persist"
              /\ response'[p] = Thrown(Error("StoreFault"))
         /\ (response'[p].kind = "response" /\ response'[p].statusCode # 201) =>
              /\ response'[p].error \in DomainErrors \cup {"IdentifierNotProvided"}
              /\ response'[p] = ToErrorResponse(Error(response'[p].error))
         /\ (pc[p] = "persist" /\ conflictDetection /\ version # readVersion[p]) =>
              response'[p] \in {ToErrorResponse(Error("ConcurrentModification")),
                                Thrown(Error("StoreFault"))}
         /\ (pc[p] = "persist" /\ ~(conflictDetection /\ version # readVersion[p])) =>
              response'[p] \in {Created(identifier[p]), Thrown(Error("StoreFault"))}]_vars

\* After a rotation that succeeded, a call has thrown the fault addOrUpdate
\* met.
ErrorDispatchWitness ==
  \E p \in Procs :
    /\ pc[p] = "done"
    /\ response[p] = Thrown(Error("StoreFault"))
    /\ version = 1

\* Every reference in a relationship list of the document is the id of a
\* method in its method sequence.
ReferencesResolve(document) ==
  /\ \A n \in 1..Len(document.authentication) :
       \E m \in 1..Len(document.verificationMethod) :
         document.verificationMethod[m].id = document.authentication[n]
  /\ \A n \in 1..Len(document.keyAgreement) :
       \E m \in 1..Len(document.verificationMethod) :
         document.verificationMethod[m].id = document.keyAgreement[n]

\* C16: in every state, every reference in a relationship list of the
\* stored controller document, of the document a call holds and of the
\* document a call returned is to a method of that document.
DocumentReferenceIntegrity ==
  /\ ReferencesResolve(store.controllerDocument)
  /\ \A p \in Procs :
       /\ ReferencesResolve(identifier[p].controllerDocument)
       /\ ReferencesResolve(response[p].body)

\* After two rotations the stored document refers to both generated keys.
DocumentReferenceIntegrityWitness ==
  /\ version = 2
  /\ \E n, m \in 1..Len(store.controllerDocument.verificationMethod) :
       /\ store.controllerDocument.verificationMethod[n].id = FirstKeyId
       /\ store.controllerDocument.verificationMethod[m].id = FirstKeyId + 1
  /\ Referenced(store.controllerDocument.authentication, FirstKeyId)
  /\ Referenced(store.controllerDocument.keyAgreement, FirstKeyId + 1)

\* The ids a verification method can have: those of the provisioned keys and
\* of the keys KeyPairCreator can generate.
MethodIds == 1..(FirstKeyId + MaxKeys)

\* Adding a method to the document under a relationship a second time leaves
\* the number of methods and the length of that relationship list as the
\* first time left them, whether or not the document held the method before.
AddedTwiceAsOnce(document) ==
  \A id \in MethodIds, relationship \in {Authentication, KeyAgreement} :
    LET method == [id |-> id, controller |-> document.id, type |-> "JsonWebKey2020"]
        once == AddVerificationMethod(document, method, {relationship})
        twice == AddVerificationMethod(once, method, {relationship})
    IN  /\ Len(twice.verificationMethod) = Len(once.verificationMethod)
        /\ Len(twice.authentication) = Len(once.authentication)
        /\ Len(twice.keyAgreement) = Len(once.keyAgreement)

\* C17: addVerificationMethod is idempotent per (method id, relationship), on
\* the stored document and on the document of every call; in particular the
\* call of lines 107-112, made again by a call that waits at line 115,
\* changes nothing.
AddVerificationMethodIdempotent ==
  /\ AddedTwiceAsOnce(store.controllerDocument)
  /\ \A p \in Procs :
       /\ AddedTwiceAsOnce(identifier[p].controllerDocument)
       /\ pc[p] = "persist" =>
            AddToDocument(identifier[p], LastKey(identifier[p]), KeyUseOf(request[p]))
              = identifier[p]

\* A call waits at line 115 with the method of its new key in the document,
\* beside those of a rotation stored before.
AddVerificationMethodIdempotentWitness ==
  \E p \in Procs :
    /\ pc[p] = "persist"
    /\ version = 1
    /\ Len(identifier[p].controllerDocument.verificationMethod) >= 3
    /\ \E n \in 1..Len(identifier[p].controllerDocument.verificationMethod) :
         identifier[p].controllerDocument.verificationMethod[n].id =
           LastKey(identifier[p]).id

\* The aggregate or its document holds a key with this id.
HoldsKey(aggregate, id) ==
  \/ \E n \in 1..Len(aggregate.keyPairs) : aggregate.keyPairs[n].id = id
  \/ \E n \in 1..Len(aggregate.controllerDocument.verificationMethod) :
       aggregate.controllerDocument.verificationMethod[n].id = id
  \/ Referenced(aggregate.controllerDocument.authentication, id)
  \/ Referenced(aggregate.controllerDocument.keyAgreement, id)

\* The aggregate, its document and the document's relationship for the use
\* all hold the key with this id.
HoldsKeyThroughout(aggregate, id, use) ==
  /\ \E n \in 1..Len(aggregate.keyPairs) : aggregate.keyPairs[n].id = id
  /\ \E n \in 1..Len(aggregate.controllerDocument.verificationMethod) :
       aggregate.controllerDocument.verificationMethod[n].id = id
  /\ Referenced(ListFor(aggregate.controllerDocument, use), id)

\* The keys a call found when it read: every key of its aggregate but the
\* one it appended.
KeysRead(p) ==
  SubSeq(identifier[p].keyPairs, 1, Len(identifier[p].keyPairs) - 1)

\* Two finished rotations of the same (identifier, use) that read the same
\* version, each with a 201; one of the two generated keys is in the stored
\* aggregate and its document, the other is in neither.
LostUpdate ==
  /\ ConcurrentRotations
  /\ \A p \in Procs : response[p].kind = "response" /\ response[p].statusCode = 201
  /\ \E p, q \in Procs :
       /\ p # q
       /\ HoldsKeyThroughout(store, LastKey(identifier[p]).id, KeyUseOf(request[p]))
       /\ ~HoldsKey(store, LastKey(identifier[q]).id)

\* C18: against a store that is plain last-writer-wins, two rotations of the
\* same (identifier, use) that both read before either wrote retire the same
\* key, generate two different keys, both return 201, and the store is left
\* with the aggregate of one of them: one new key stored, the other in
\* neither the keys nor the document.
LostUpdateUnderLastWriterWins ==
  (~conflictDetection /\ ConcurrentRotations) =>
    /\ KeysRead(1) = KeysRead(2)
    /\ LastKey(identifier[1]).id # LastKey(identifier[2]).id
    /\ version = 2
    /\ Len(store.keyPairs) = Len(KeysRead(1)) + 1
    /\ LostUpdate

\* The interleaving exists: both calls returned 201 for the signing key, the
\* second write replaced the first, and the key of call 1 is gone.
LostUpdateUnderLastWriterWinsWitness ==
  /\ ~conflictDetection
  /\ LostUpdate
  /\ KeyUseOf(request[1]) = Signing
  /\ store = identifier[2]
  /\ response[1].body # store.controllerDocument
  /\ ~HoldsKey(store, LastKey(identifier[1]).id)

\* after is before with one key of the use appended, Current; of the keys of
\* before, each is at its place, the Current one of the use differs in state
\* and private key alone, and every other one is as it was.
RotationFrame(before, after, use) ==
  /\ Len(after.keyPairs) = Len(before.keyPairs) + 1
  /\ LastKey(after).use = use
  /\ LastKey(after).state = Current
  /\ \A n \in 1..Len(before.keyPairs) : LastKey(after).id # before.keyPairs[n].id
  /\ \A n \in 1..Len(before.keyPairs) :
       IF n \in CurrentIndexes(before, use)
       THEN after.keyPairs[n] =
              [before.keyPairs[n] EXCEPT !.state = Historical, !.privateKey = FALSE]
       ELSE after.keyPairs[n] = before.keyPairs[n]
  /\ after.id = before.id
  /\ after.owner = before.owner

\* C19: a successful rotation for a use appends exactly one key to the keys
\* it read and keeps the others in their order; keys of the other use and
\* Historical keys of the use are unchanged, and the key that was Current for
\* the use is the only one modified.  This holds of the aggregate a call
\* builds from the stored one, and of the stored aggregate across the write
\* of a call that writes over the version it read.
RotationFrameHolds ==
  [][\A p \in Procs :
       /\ ReachesPersist(p) =>
            RotationFrame(store, identifier'[p], KeyUseOf(request'[p]))
       /\ (Succeeds(p) /\ version = readVersion[p]) =>
            RotationFrame(store, store', KeyUseOf(request[p]))]_vars

\* A second rotation of the signing key has returned 201: the stored
\* aggregate holds the key retired by the first, the one retired by the
\* second, the new Current one, and the key-agreement key still Current with
\* its private key.
RotationFrameHoldsWitness ==
  \E p \in Procs :
    /\ pc[p] = "done"
    /\ response[p].statusCode = 201
    /\ store = identifier[p]
    /\ version = 2
    /\ KeyUseOf(request[p]) = Signing
    /\ Len(store.keyPairs) = 4
    /\ \E n \in 1..Len(store.keyPairs) :
         /\ store.keyPairs[n].use = KeyAgreementUse
         /\ store.keyPairs[n].state = Current
         /\ store.keyPairs[n].privateKey
    /\ Cardinality({n \in 1..Len(store.keyPairs) :
                      /\ store.keyPairs[n].use = Signing
                      /\ store.keyPairs[n].state = Historical}) = 2

====
